---------------------------- MODULE Spec2Model ----------------------------
(***************************************************************************)
(* Incremental indexing pipeline (CodeIndexer, IndexingService) and the    *)
(* search engine (SearchEngine) over one SQLite store (DatabaseManager).   *)
(*                                                                         *)
(* Every async method is cut at its awaits: one action runs the code from  *)
(* one await to the next, and a database statement takes effect in the     *)
(* action that issues it (statements of one connection run in the order    *)
(* they are issued).  Strings are sequences of one-character strings.      *)
(* Scores are fixed-point numbers: ScoreOne stands for 1.0.                *)
(***************************************************************************)
EXTENDS Integers, Sequences, FiniteSets, TLC

(***************************************************************************)
(* Bounds of the model                                                     *)
(***************************************************************************)
\* indexing calls (indexFile / removeFile / updateFile) that can be in flight
NumIdx == 2
\* indexing calls started in one behaviour
MaxCalls == 2
\* search calls started in one behaviour
MaxSearches == 1

\* search calls a caller makes in SpecSearch
MaxRepeats == 2
\* search calls that can be in flight
NumSrch == 2
\* indexWorkspace / rebuildIndex calls that can be in flight, one of them
\* past the isIndexing check
NumRuns == 2
\* indexWorkspace / rebuildIndex calls started in one behaviour
MaxRuns == 2
\* file system edits in one behaviour
MaxEdits == 1
\* store statements the environment may reject (I/O error, SQLITE_BUSY)
MaxFaults == 1

(***************************************************************************)
(* Strings                                                                 *)
(***************************************************************************)
Min2(a, b) == IF a <= b THEN a ELSE b
Max2(a, b) == IF a >= b THEN a ELSE b

Lower(ch) ==
  CASE ch = "A" -> "a"
    [] ch = "S" -> "s"
    [] OTHER -> ch

\* String.prototype.toLowerCase
toLowerCase(s) == [i \in 1..Len(s) |-> Lower(s[i])]

IsSpace(ch) == ch \in {" ", "\n"}

\* String.prototype.includes
includes(s, t) ==
  \E i \in 0..(Len(s) - Len(t)) : SubSeq(s, i + 1, i + Len(t)) = t

\* String.prototype.split(/\s+/): the pieces between maximal runs of white
\* space; a leading or trailing run leaves an empty piece
RECURSIVE SplitFrom(_, _, _, _, _)
SplitFrom(s, i, cur, inWs, acc) ==
  IF i > Len(s) THEN Append(acc, cur)
  ELSE IF IsSpace(s[i])
       THEN IF inWs THEN SplitFrom(s, i + 1, cur, TRUE, acc)
            ELSE SplitFrom(s, i + 1, <<>>, TRUE, Append(acc, cur))
       ELSE SplitFrom(s, i + 1, Append(cur, s[i]), FALSE, acc)

split(s) == SplitFrom(s, 1, <<>>, FALSE, <<>>)

\* String.prototype.split(/[.!?]+/): the pieces between maximal runs of
\* sentence marks
RECURSIVE SplitSentences(_, _, _, _, _)
SplitSentences(s, i, cur, inMark, acc) ==
  IF i > Len(s) THEN Append(acc, cur)
  ELSE IF s[i] \in {".", "!", "?"}
       THEN IF inMark THEN SplitSentences(s, i + 1, cur, TRUE, acc)
            ELSE SplitSentences(s, i + 1, <<>>, TRUE, Append(acc, cur))
       ELSE SplitSentences(s, i + 1, Append(cur, s[i]), FALSE, acc)

\* String.prototype.indexOf(t, from), positions counted from 0: the first
\* place at or after from where t stands, or -1; from is cut to the length
indexOf(s, t, from) ==
  LET at == {i \in Min2(from, Len(s))..(Len(s) - Len(t)) :
               SubSeq(s, i + 1, i + Len(t)) = t}
  IN IF at = {} THEN -1 ELSE CHOOSE i \in at : \A j \in at : i <= j

\* number of elements of a sequence that satisfy a predicate
CountSeq(s, P(_)) == Cardinality({i \in 1..Len(s) : P(s[i])})

Range(s) == {s[i] : i \in 1..Len(s)}


(***************************************************************************)
(* Files of the workspace                                                  *)
(***************************************************************************)
Paths == {"a.ts", "b.js"}

\* path.extname(filePath).toLowerCase()
extname(p) ==
  CASE p = "a.ts" -> ".ts"
    [] OTHER -> ".js"

supportedExtensions ==
  {".ts", ".tsx", ".js", ".jsx", ".py", ".java", ".cpp", ".c", ".h", ".hpp",
   ".go", ".rs", ".php", ".rb", ".swift", ".kt"}

NoFile == 0

kwFunction == <<"f", "u", "n", "c", "t", "i", "o", "n">>
nmAdd == <<"a", "d", "d">>
nmSub == <<"s", "u", "b">>

\* Source texts a file can hold.  A text is the list of its function
\* declarations with the text line each starts on; a declaration reads
\*     function <name>() {
\*     <body>}
\*   text 1:  function add() {\na+b}
\*   text 2:  function add() {\na+b}\nfunction sub() {\nadd(a)}
\*   text 3:  \n\nfunction sub() {\nadd(a)}
\*   text 4:  nine empty lines, then function add() {\na+b}
\*   text 5:  the functions aba, abb, ada, adb and bud, each with the body
\*            a+b, on the lines 1, 3, 5, 7 and 9
Contents == {1, 2, 3, 4, 5}

\* a text with more functions than twice maxResults
LargeText == 5

\* the texts the file at a path takes in the modelled workspace
TextsOf(p) == IF p = "a.ts" THEN {1, 2} ELSE {3, 4}

declAdd == [name |-> nmAdd, body |-> <<"a", "+", "b">>, line |-> 1]
declSub == [name |-> nmSub, body |-> <<"a", "d", "d", "(", "a", ")">>, line |-> 3]
declAddLate == [name |-> nmAdd, body |-> <<"a", "+", "b">>, line |-> 10]

FileDecls(c) ==
  CASE c = 1 -> <<declAdd>>
    [] c = 2 -> <<declAdd, declSub>>
    [] c = 3 -> <<declSub>>
    [] c = 4 -> <<declAddLate>>
    [] OTHER -> [k \in 1..5 |->
                   [name |-> <<<<"a", "b", "a">>, <<"a", "b", "b">>,
                               <<"a", "d", "a">>, <<"a", "d", "b">>,
                               <<"b", "u", "d">>>>[k],
                    body |-> <<"a", "+", "b">>, line |-> 2 * k - 1]]

\* createHash("sha256").update(content).digest("hex"): equal texts have equal
\* digests and the modelled texts have different ones
getFileHash(c) == c

\* `${type}:${name}:${lineNumber}`
generateId(type, name, lineNumber) == <<type, name, lineNumber>>

\* content.substring(0, index).split("\n").length: the line of the match
getLineNumber(d) == d.line

\* first line of the text from the match on, trimmed
extractFunctionSignature(d) == kwFunction \o <<" ">> \o d.name \o <<"(", ")", " ", "{">>

\* the brace-balanced block that starts at the first "{" after the match
extractFunctionContent(d) == <<"{", "\n">> \o d.body \o <<"}">>

\* the elements functionRegex finds in text c, in text order; the texts hold
\* no class, interface, variable or import, so the other passes add nothing
extractTypeScriptElements(c) ==
  [k \in 1..Len(FileDecls(c)) |->
     [id         |-> generateId("function", FileDecls(c)[k].name,
                                getLineNumber(FileDecls(c)[k])),
      type       |-> "function",
      name       |-> FileDecls(c)[k].name,
      lineNumber |-> getLineNumber(FileDecls(c)[k]),
      signature  |-> extractFunctionSignature(FileDecls(c)[k]),
      content    |-> extractFunctionContent(FileDecls(c)[k])]]

\* extractCodeElements: dispatch on the language of the extension
extractCodeElements(p, c) ==
  IF extname(p) \in {".ts", ".tsx", ".js", ".jsx"}
  THEN extractTypeScriptElements(c)
  ELSE <<>>

\* the row indexFile hands to storeCodeElement for one extracted element
ElementRow(el, p, hash) ==
  [id |-> el.id, type |-> el.type, name |-> el.name, filePath |-> p,
   lineNumber |-> el.lineNumber, signature |-> el.signature,
   content |-> el.content, hash |-> hash]

\* the complete row set of text c indexed under path p
FullSet(p, c) == {ElementRow(extractCodeElements(p, c)[k], p, getFileHash(c)) :
                    k \in 1..Len(extractCodeElements(p, c))}

(***************************************************************************)
(* State                                                                   *)
(***************************************************************************)
VARIABLES
  fs,              \* path -> text the file holds, or NoFile
  code_index,      \* table code_index: its rows in rowid (insertion) order
  search_queries,  \* table search_queries
  search_results,  \* table search_results
  idx,             \* slot -> indexing call in flight (IndexingService)
  srch,            \* slot -> search call in flight (SearchEngine)
  now,             \* Date.now() of the run
  calls,           \* indexing calls started
  searches,        \* search calls started
  edits,           \* file system edits made
  faults,          \* store statements rejected by the environment
  lastOk,          \* path -> text of the last undisturbed successful indexFile
  removed,         \* path -> an undisturbed removeFile completed, no call since
  hl,              \* a query and a content, and the highlights made of them
  svc              \* the fields of the services: connections, isIndexing,
                   \* indexingProgress, the workspace runs in flight

vars == <<fs, code_index, search_queries, search_results, idx, srch, now,
          calls, searches, edits, faults, lastOk, removed, hl, svc>>

IdxSlots == 1..NumIdx
RunSlots == 1..NumRuns
NoRow == 0

\* IndexingResult of indexWorkspace
Summary(success, n, errors) ==
  [success |-> success, elementsIndexed |-> n, errors |-> errors]

\* a call of indexWorkspace or rebuildIndex: where it stands, the files it
\* enumerated, the file it is at and the indexing call that handles it, how
\* its promise settled and the summary indexWorkspace returned; whether it
\* ran together with another such call, whether it started after dispose,
\* and the text and outcome of each file it handled
NoRun == [pc |-> "idle", kind |-> "", files |-> <<>>, n |-> 0, slot |-> 0,
          status |-> "none", error |-> "", summary |-> Summary(FALSE, 0, <<>>),
          overlapped |-> FALSE, afterDispose |-> FALSE, indexed |-> <<>>]

\* this.indexingProgress as indexWorkspace resets it
NoProgress == [totalFiles |-> 0, processedFiles |-> 0, errors |-> <<>>,
               currentFile |-> ""]

\* the services after construction: DatabaseManager.db is null in both
NewServices ==
  [indexDb |-> "null", searchDb |-> "null",
   indexDisposed |-> FALSE, searchDisposed |-> FALSE,
   isIndexing |-> FALSE, indexingProgress |-> NoProgress,
   run |-> [w \in RunSlots |-> NoRun], runs |-> 0]

\* the services after initialize() of both
OpenServices == [NewServices EXCEPT !.indexDb = "open", !.searchDb = "open"]

(***************************************************************************)
(* Store access of CodeIndexer                                             *)
(***************************************************************************)
\* the rows of path p, oldest first
RowsOf(tbl, p) == SelectSeq(tbl, LAMBDA r : r.filePath = p)

\* SELECT hash FROM code_index WHERE file_path = ? LIMIT 1: the hash of the
\* first row idx_code_index_file_path yields for p, or no row
getExistingIndex(p) ==
  IF RowsOf(code_index, p) = <<>> THEN NoRow ELSE RowsOf(code_index, p)[1].hash

\* a DELETE that removes no row
removeFileIndexNothing(tbl, p) == tbl

\* a DELETE without its WHERE clause
removeFileIndexAll(tbl, p) == <<>>

\* DELETE FROM code_index WHERE file_path = ?
removeFileIndex(tbl, p) == SelectSeq(tbl, LAMBDA r : r.filePath # p)

\* id TEXT PRIMARY KEY: the stored row that holds the id, if any
RowWithId(tbl, id) == {k \in 1..Len(tbl) : tbl[k].id = id}

\* INSERT INTO code_index ... accepted by the primary key
storeAccepted(tbl, row) == RowWithId(tbl, row.id) = {}

\* an INSERT that stores no row
storeCodeElementIgnored(tbl, row) == tbl

\* INSERT INTO code_index ...
storeCodeElement(tbl, row) == Append(tbl, row)

\* a skip test with the comparison inverted
UnchangedInverted(existing, hash) == existing # NoRow /\ existing # hash

\* indexFile skips a file whose stored hash equals the hash of its text
Unchanged(existing, hash) == existing # NoRow /\ existing = hash

(***************************************************************************)
(* Indexing calls                                                          *)
(***************************************************************************)
\* the message of the error getDatabase throws without a connection
NotInitialized == "Database not initialized"

NoResult == [status |-> "none", success |-> FALSE, elementsIndexed |-> 0,
             error |-> "", conflictPath |-> ""]

\* an indexFile whose promise rejects when a step fails
ResolvedUnlessFailed(success, n, error, conflictPath) ==
  [status |-> IF success THEN "resolved" ELSE "rejected", success |-> success,
   elementsIndexed |-> n, error |-> error, conflictPath |-> conflictPath]

\* IndexingResult of a resolved call
Resolved(success, n, error, conflictPath) ==
  [status |-> "resolved", success |-> success, elementsIndexed |-> n,
   error |-> error, conflictPath |-> conflictPath]

\* a call whose promise rejects
Rejected(error) ==
  [status |-> "rejected", success |-> FALSE, elementsIndexed |-> 0,
   error |-> error, conflictPath |-> ""]

IdleOp == [pc |-> "idle", kind |-> "", path |-> "", content |-> NoFile,
           existing |-> NoRow, k |-> 0, count |-> 0, result |-> NoResult,
           before |-> <<>>, clean |-> FALSE, idem |-> FALSE,
           replaced |-> FALSE, latest |-> FALSE, deleted |-> FALSE]

\* the environment may reject a statement while its budget lasts
FaultChoices == IF faults < MaxFaults THEN {FALSE, TRUE} ELSE {FALSE}

\* a new call takes the first slot whose call has settled
Free(i) ==
  /\ idx[i].pc \in {"idle", "done"}
  /\ \A j \in IdxSlots : j < i => idx[j].pc \notin {"idle", "done"}

\* no other indexing call on path p is in flight
Undisturbed(i, p) ==
  \A j \in IdxSlots \ {i} : idx[j].path = p => idx[j].pc \in {"idle", "done"}

\* a call on p starts in slot i with record op: every other call on p is
\* disturbed from now on, and this call is the latest one made on p
Begin(i, p, op) ==
  [j \in IdxSlots |->
     IF j = i THEN [op EXCEPT !.latest = TRUE]
     ELSE IF idx[j].path = p THEN [idx[j] EXCEPT !.clean = FALSE, !.latest = FALSE]
     ELSE idx[j]]

\* an indexFile that takes a missing file for a removal and reports success
indexFileBeginMissingOk(op, p) ==
  IF extname(p) \notin supportedExtensions \/ fs[p] = NoFile
  THEN [op EXCEPT !.pc = "done", !.result = Resolved(TRUE, 0, "", "")]
  ELSE IF svc.indexDb # "open"
  THEN [op EXCEPT !.pc = "done", !.content = fs[p],
                  !.result = Resolved(FALSE, 0, NotInitialized, "")]
  ELSE [op EXCEPT !.pc = "lookup", !.content = fs[p],
                  !.existing = getExistingIndex(p)]

\* CodeIndexer.indexFile up to its first await, inside the try of
\* IndexingService.indexFile: extension check, readFileSync, getExistingIndex
indexFileBegin(op, p) ==
  IF extname(p) \notin supportedExtensions
  THEN [op EXCEPT !.pc = "done", !.result = Resolved(TRUE, 0, "", "")]
  ELSE IF fs[p] = NoFile
  THEN [op EXCEPT !.pc = "done", !.result = Resolved(FALSE, 0, "ENOENT", "")]
  ELSE IF svc.indexDb # "open"
  THEN [op EXCEPT !.pc = "done", !.content = fs[p],
                  !.result = Resolved(FALSE, 0, NotInitialized, "")]
  ELSE [op EXCEPT !.pc = "lookup", !.content = fs[p],
                  !.existing = getExistingIndex(p)]

\* the text a completed call has indexed
TextOf(op) == IF op.content = NoFile THEN fs[op.path] ELSE op.content

\* op is an indexFile or updateFile that ran undisturbed and reported success
OkDone(op) ==
  /\ op.pc = "done" /\ op.clean /\ op.kind \in {"indexFile", "updateFile"}
  /\ op.result.status = "resolved" /\ op.result.success

\* op is a removeFile that ran undisturbed and resolved
RemovedDone(op) ==
  /\ op.pc = "done" /\ op.clean /\ op.kind = "removeFile"
  /\ op.result.status = "resolved"

\* history kept when a call on p starts with record op
Started(p, op) ==
  /\ lastOk' = [lastOk EXCEPT ![p] = IF OkDone(op) THEN TextOf(op) ELSE NoFile]
  /\ removed' = [removed EXCEPT ![p] = RemovedDone(op)]

\* history kept when the call proceeds to record op
Proceeded(op) ==
  /\ lastOk' = [lastOk EXCEPT ![op.path] = IF OkDone(op) THEN TextOf(op) ELSE @]
  /\ UNCHANGED removed

\* IndexingService.indexFile(p) is called
StartIndexFile(i, p) ==
  /\ Free(i)
  /\ calls' = calls + 1
  /\ LET op0 == [IdleOp EXCEPT !.kind = "indexFile", !.path = p,
                               !.before = RowsOf(code_index, p),
                               !.clean = Undisturbed(i, p),
                               !.idem = (Undisturbed(i, p) /\ lastOk[p] # NoFile
                                         /\ lastOk[p] = fs[p])]
         op == indexFileBegin(op0, p)
     IN /\ idx' = Begin(i, p, op)
        /\ Started(p, op)
  /\ UNCHANGED <<svc, hl, fs, code_index, search_queries, search_results, srch, now,
                 searches, edits, faults>>

\* indexFile after getExistingIndex: return 0 for an unchanged file, else
\* removeFileIndex; a rejected statement is caught by IndexingService.indexFile
IndexCheck(i) ==
  /\ idx[i].pc = "lookup"
  /\ LET op == idx[i]
         p == op.path
     IN IF Unchanged(op.existing, getFileHash(op.content))
        THEN /\ idx' = [idx EXCEPT ![i].pc = "done",
                                   ![i].result = Resolved(TRUE, 0, "", "")]
             /\ UNCHANGED <<code_index, faults>>
        ELSE \E fault \in FaultChoices :
               IF fault
               THEN /\ faults' = faults + 1
                    /\ idx' = [idx EXCEPT ![i].pc = "done",
                                 ![i].result = Resolved(FALSE, 0, "SQLITE_IOERR", "")]
                    /\ UNCHANGED code_index
               ELSE /\ code_index' = removeFileIndex(code_index, p)
                    /\ idx' = [idx EXCEPT ![i].pc = "insert", ![i].k = 1,
                                          ![i].replaced = TRUE]
                    /\ UNCHANGED faults
  /\ Proceeded(idx'[i])
  /\ UNCHANGED <<svc, hl, fs, search_queries, search_results, srch, now, calls,
                 searches, edits>>

\* indexFile after removeFileIndex: extractCodeElements, then one
\* storeCodeElement per await; the call returns after the last insert
IndexInsert(i) ==
  /\ idx[i].pc = "insert"
  /\ LET op == idx[i]
         p == op.path
         els == extractCodeElements(p, op.content)
         row == ElementRow(els[op.k], p, getFileHash(op.content))
     IN IF op.k > Len(els)
        THEN /\ idx' = [idx EXCEPT ![i].pc = "done",
                                   ![i].result = Resolved(TRUE, op.count, "", "")]
             /\ UNCHANGED <<code_index, faults>>
        ELSE \E fault \in FaultChoices :
               IF fault
               THEN /\ faults' = faults + 1
                    /\ idx' = [idx EXCEPT ![i].pc = "done",
                                 ![i].result = Resolved(FALSE, 0, "SQLITE_IOERR", "")]
                    /\ UNCHANGED code_index
               ELSE IF ~storeAccepted(code_index, row)
               THEN /\ idx' = [idx EXCEPT ![i].pc = "done",
                                 ![i].result =
                                   Resolved(FALSE, 0, "SQLITE_CONSTRAINT",
                                     code_index[CHOOSE n \in RowWithId(code_index, row.id) : TRUE].filePath)]
                    /\ UNCHANGED <<code_index, faults>>
               ELSE /\ code_index' = storeCodeElement(code_index, row)
                    /\ idx' = IF op.k = Len(els)
                              THEN [idx EXCEPT ![i].pc = "done",
                                               ![i].count = op.count + 1,
                                               ![i].result = Resolved(TRUE, op.count + 1, "", "")]
                              ELSE [idx EXCEPT ![i].k = op.k + 1,
                                               ![i].count = op.count + 1]
                    /\ UNCHANGED faults
  /\ Proceeded(idx'[i])
  /\ UNCHANGED <<svc, hl, fs, search_queries, search_results, srch, now, calls,
                 searches, edits>>

\* IndexingService.removeFile(p): CodeIndexer.removeFile, one DELETE; nothing
\* catches a rejected statement
StartRemoveFile(i, p) ==
  /\ Free(i)
  /\ calls' = calls + 1
  /\ \E fault \in FaultChoices :
       LET op0 == [IdleOp EXCEPT !.kind = "removeFile", !.path = p,
                                 !.deleted = (fs[p] = NoFile),
                                 !.before = RowsOf(code_index, p),
                                 !.clean = Undisturbed(i, p), !.pc = "done"]
           op == IF fault THEN [op0 EXCEPT !.result = Rejected("SQLITE_IOERR")]
                 ELSE [op0 EXCEPT !.result = Resolved(TRUE, 0, "", "")]
       IN /\ faults' = IF fault THEN faults + 1 ELSE faults
          /\ code_index' = IF fault THEN code_index
                           ELSE removeFileIndex(code_index, p)
          /\ idx' = Begin(i, p, op)
          /\ Started(p, op)
  /\ UNCHANGED <<svc, hl, fs, search_queries, search_results, srch, now, searches, edits>>

\* IndexingService.updateFile(p) up to the await of removeFile(p)
StartUpdateFile(i, p) ==
  /\ Free(i)
  /\ calls' = calls + 1
  /\ \E fault \in FaultChoices :
       LET op0 == [IdleOp EXCEPT !.kind = "updateFile", !.path = p,
                                 !.before = RowsOf(code_index, p),
                                 !.clean = Undisturbed(i, p)]
           op == IF fault
                 THEN [op0 EXCEPT !.pc = "done", !.result = Rejected("SQLITE_IOERR")]
                 ELSE [op0 EXCEPT !.pc = "removed"]
       IN /\ faults' = IF fault THEN faults + 1 ELSE faults
          /\ code_index' = IF fault THEN code_index
                           ELSE removeFileIndex(code_index, p)
          /\ idx' = Begin(i, p, op)
          /\ Started(p, op)
  /\ UNCHANGED <<svc, hl, fs, search_queries, search_results, srch, now, searches, edits>>

\* updateFile after removeFile resolved: return await this.indexFile(p)
UpdateIndex(i) ==
  /\ idx[i].pc = "removed"
  /\ idx' = [idx EXCEPT ![i] = indexFileBegin(idx[i], idx[i].path)]
  /\ Proceeded(idx'[i])
  /\ UNCHANGED <<svc, hl, fs, code_index, search_queries, search_results, srch, now,
                 calls, searches, edits, faults>>

(***************************************************************************)
(* Workspace runs and life cycle of IndexingService                        *)
(***************************************************************************)
\* a new indexWorkspace or rebuildIndex call takes the first slot whose call
\* has settled
FreeRun(w) ==
  /\ svc.run[w].pc \in {"idle", "done"}
  /\ \A v \in RunSlots : v < w => svc.run[v].pc \notin {"idle", "done"}

\* some indexWorkspace or rebuildIndex call has not settled
RunPending == \E v \in RunSlots : svc.run[v].pc \notin {"idle", "done"}

\* vscode.workspace.findFiles: the files of the workspace that exist
getWorkspaceFiles == SelectSeq(<<"a.ts", "b.js">>, LAMBDA p : fs[p] # NoFile)

\* indexWorkspace up to the await of getWorkspaceFiles, for the call with
\* record r in slot w: it throws while another run is in progress, else it
\* sets isIndexing and resets indexingProgress
indexWorkspaceBegin(w, r) ==
  IF svc.isIndexing
  THEN [svc EXCEPT !.run[w] = [r EXCEPT !.pc = "done", !.status = "rejected",
                                        !.error = "Indexing already in progress"]]
  ELSE [svc EXCEPT !.isIndexing = TRUE, !.indexingProgress = NoProgress,
                   !.run[w] = [r EXCEPT !.pc = "enumerate"]]

\* an indexWorkspace that clears isIndexing at the end of its try only
indexWorkspaceReturnInTry(w, summary) ==
  [svc EXCEPT !.isIndexing = ~summary.success,
              !.run[w] = [@ EXCEPT !.pc = "done", !.status = "resolved",
                                   !.summary = summary]]

\* indexWorkspace returns summary from its try or its catch; finally clears
\* isIndexing; rebuildIndex resolves whatever the summary is
indexWorkspaceReturn(w, summary) ==
  [svc EXCEPT !.isIndexing = FALSE,
              !.run[w] = [@ EXCEPT !.pc = "done", !.status = "resolved",
                                   !.summary = summary]]

\* the call of slot w has started: the count of the calls, and every call
\* that has not settled has run together with another one
Overlap(sv, w) ==
  [sv EXCEPT !.runs = @ + 1,
             !.run = [v \in RunSlots |->
                        IF v # w /\ svc.run[v].pc \notin {"idle", "done"}
                        THEN [sv.run[v] EXCEPT !.overlapped = TRUE]
                        ELSE sv.run[v]]]

\* IndexingService.indexWorkspace() is called
StartIndexWorkspace(w) ==
  /\ FreeRun(w)
  /\ svc' = Overlap(indexWorkspaceBegin(w,
                      [NoRun EXCEPT !.kind = "indexWorkspace",
                                    !.overlapped = RunPending,
                                    !.afterDispose = svc.indexDisposed]), w)
  /\ UNCHANGED <<hl, fs, code_index, search_queries, search_results, idx, srch,
                 now, calls, searches, edits, faults, lastOk, removed>>

\* IndexingService.rebuildIndex() up to the await of DELETE FROM code_index:
\* getDatabase throws without a connection; every indexing call in flight
\* loses the rows it counts on
StartRebuildIndex(w) ==
  /\ FreeRun(w)
  /\ LET r == [NoRun EXCEPT !.kind = "rebuildIndex", !.overlapped = RunPending,
                            !.afterDispose = svc.indexDisposed]
     IN IF svc.indexDb # "open"
        THEN /\ svc' = Overlap([svc EXCEPT
                          !.run[w] = [r EXCEPT !.pc = "done", !.status = "rejected",
                                               !.error = NotInitialized]], w)
             /\ UNCHANGED <<code_index, idx, faults, lastOk, removed>>
        ELSE \E fault \in FaultChoices :
               IF fault
               THEN /\ faults' = faults + 1
                    /\ svc' = Overlap([svc EXCEPT
                                 !.run[w] = [r EXCEPT !.pc = "done",
                                                      !.status = "rejected",
                                                      !.error = "SQLITE_IOERR"]], w)
                    /\ UNCHANGED <<code_index, idx, lastOk, removed>>
               ELSE /\ code_index' = <<>>
                    /\ svc' = Overlap([svc EXCEPT
                                 !.run[w] = [r EXCEPT !.pc = "deleted"]], w)
                    /\ idx' = [j \in IdxSlots |-> [idx[j] EXCEPT !.clean = FALSE]]
                    /\ lastOk' = [p \in Paths |-> NoFile]
                    /\ removed' = [p \in Paths |-> FALSE]
                    /\ UNCHANGED faults
  /\ UNCHANGED <<hl, fs, search_queries, search_results, srch, now, calls,
                 searches, edits>>

\* rebuildIndex after the DELETE: await this.indexWorkspace()
RebuildIndexWorkspace(w) ==
  /\ svc.run[w].pc = "deleted"
  /\ svc' = indexWorkspaceBegin(w, svc.run[w])
  /\ UNCHANGED <<hl, fs, code_index, search_queries, search_results, idx, srch,
                 now, calls, searches, edits, faults, lastOk, removed>>

\* indexWorkspace after getWorkspaceFiles settled: a rejection goes to the
\* catch, else the batch of the files starts
RunEnumerate(w) ==
  /\ svc.run[w].pc = "enumerate"
  /\ \E fault \in FaultChoices :
       IF fault
       THEN /\ faults' = faults + 1
            /\ svc' = indexWorkspaceReturn(w,
                        Summary(FALSE, 0, <<[file |-> "", message |-> "EIO"]>>))
       ELSE /\ svc' = [svc EXCEPT
                         !.indexingProgress.totalFiles = Len(getWorkspaceFiles),
                         !.run[w] = [@ EXCEPT
                            !.files = getWorkspaceFiles, !.n = 1,
                            !.pc = IF getWorkspaceFiles = <<>> THEN "count"
                                   ELSE "batch"]]
            /\ UNCHANGED faults
  /\ UNCHANGED <<hl, fs, code_index, search_queries, search_results, idx, srch,
                 now, calls, searches, edits, lastOk, removed>>

\* processBatch at the next file: currentFile, then codeIndexer.indexFile up
\* to its first await, handled as the indexing call of slot i
RunFile(w, i) ==
  /\ svc.run[w].pc = "batch"
  /\ Free(i)
  /\ calls' = calls + 1
  /\ LET p == svc.run[w].files[svc.run[w].n]
         op0 == [IdleOp EXCEPT !.kind = "indexWorkspace", !.path = p,
                               !.before = RowsOf(code_index, p),
                               !.clean = Undisturbed(i, p)]
         op == indexFileBegin(op0, p)
     IN /\ idx' = Begin(i, p, op)
        /\ Started(p, op)
        /\ svc' = [svc EXCEPT !.indexingProgress.currentFile = p,
                              !.run[w] = [@ EXCEPT !.pc = "file", !.slot = i]]
  /\ UNCHANGED <<hl, fs, code_index, search_queries, search_results, srch, now,
                 searches, edits, faults>>

\* processBatch after codeIndexer.indexFile settled: processedFiles++ or the
\* error is pushed; then the next file, or after the last one the yield
RunCollect(w) ==
  /\ svc.run[w].pc = "file"
  /\ idx[svc.run[w].slot].pc = "done"
  /\ LET r == svc.run[w]
         op == idx[r.slot]
         ok == op.result.success
     IN svc' = [svc EXCEPT
          !.indexingProgress.processedFiles = IF ok THEN @ + 1 ELSE @,
          !.indexingProgress.errors =
             IF ok THEN @
             ELSE Append(@, [file |-> op.path, message |-> op.result.error]),
          !.run[w] = [r EXCEPT
             !.indexed = Append(@, [path |-> op.path, content |-> op.content,
                                    ok |-> ok, error |-> op.result.error]),
             !.n = r.n + 1,
             !.pc = IF r.n = Len(r.files) THEN "count" ELSE "batch"]]
  /\ UNCHANGED <<hl, fs, code_index, search_queries, search_results, idx, srch,
                 now, calls, searches, edits, faults, lastOk, removed>>

\* indexWorkspace after the batches: getIndexElementCount, then the summary;
\* getStats throws without a connection, which goes to the catch
RunCount(w) ==
  /\ svc.run[w].pc = "count"
  /\ svc' = indexWorkspaceReturn(w,
              IF svc.indexDb # "open"
              THEN Summary(FALSE, 0, <<[file |-> "", message |-> NotInitialized]>>)
              ELSE Summary(TRUE, Len(code_index), svc.indexingProgress.errors))
  /\ UNCHANGED <<hl, fs, code_index, search_queries, search_results, idx, srch,
                 now, calls, searches, edits, faults, lastOk, removed>>

\* IndexingService.initialize(): DatabaseManager.initialize opens the store
InitializeIndexing ==
  /\ svc.indexDb = "null"
  /\ ~svc.indexDisposed
  /\ svc' = [svc EXCEPT !.indexDb = "open"]
  /\ UNCHANGED <<hl, fs, code_index, search_queries, search_results, idx, srch,
                 now, calls, searches, edits, faults, lastOk, removed>>

\* SearchEngine.initialize()
InitializeSearch ==
  /\ svc.searchDb = "null"
  /\ ~svc.searchDisposed
  /\ svc' = [svc EXCEPT !.searchDb = "open"]
  /\ UNCHANGED <<hl, fs, code_index, search_queries, search_results, idx, srch,
                 now, calls, searches, edits, faults, lastOk, removed>>

\* IndexingService.dispose(): DatabaseManager.close sets db to null
DisposeIndexing ==
  /\ ~svc.indexDisposed
  /\ svc' = [svc EXCEPT !.indexDb = "null", !.indexDisposed = TRUE]
  /\ UNCHANGED <<hl, fs, code_index, search_queries, search_results, idx, srch,
                 now, calls, searches, edits, faults, lastOk, removed>>

\* SearchEngine.dispose()
DisposeSearch ==
  /\ ~svc.searchDisposed
  /\ svc' = [svc EXCEPT !.searchDb = "null", !.searchDisposed = TRUE]
  /\ UNCHANGED <<hl, fs, code_index, search_queries, search_results, idx, srch,
                 now, calls, searches, edits, faults, lastOk, removed>>

(***************************************************************************)
(* Search engine                                                           *)
(***************************************************************************)
\* config.maxResults of the modelled engine (the default is 50)
maxResults == 2

\* 1.0 in the fixed-point scale of relevance scores
ScoreOne == 3 * 100

\* config.minScore || 0.3
minScore == (3 * ScoreOne) \div 10

SrchSlots == 1..NumSrch
NoFilters == [fileTypes |-> {}, elementTypes |-> {}, present |-> FALSE]
TsOnly == [fileTypes |-> {"ts"}, elementTypes |-> {"class"}, present |-> TRUE]

\* the queries a caller sends: q1 asks for "add", q2 for "function add" among
\* the classes of TypeScript files, q3 for "add sub", q4 for nothing
Queries ==
  [id : {"q1"}, queryText : {nmAdd},
   searchType : {"text", "semantic", "hybrid"}, filters : {NoFilters}]
  \cup [id : {"q2"}, queryText : {kwFunction \o <<" ">> \o nmAdd},
        searchType : {"text", "hybrid"}, filters : {TsOnly}]
  \cup [id : {"q3"}, queryText : {nmAdd \o <<" ">> \o nmSub},
        searchType : {"text"}, filters : {NoFilters}]
  \cup [id : {"q4"}, queryText : {<<>>, <<" ">>},
        searchType : {"text", "semantic", "hybrid"}, filters : {NoFilters}]

\* the queries of SpecRank: the functions whose text holds "u", or "add"
RankQueries ==
  [id : {"q5"}, queryText : {<<"u">>}, searchType : {"text"},
   filters : {NoFilters}]
  \cup {q \in Queries : q.id = "q1" /\ q.searchType = "text"}

\* code points of the characters names and ids are made of
CharCode(ch) ==
  CASE ch = "0" -> 48 [] ch = "1" -> 49 [] ch = "2" -> 50 [] ch = "3" -> 51
    [] ch = "4" -> 52 [] ch = "5" -> 53 [] ch = "6" -> 54 [] ch = "7" -> 55
    [] ch = "8" -> 56 [] ch = "9" -> 57 [] ch = ":" -> 58
    [] ch = "A" -> 65 [] ch = "S" -> 83 [] ch = "a" -> 97 [] ch = "b" -> 98
    [] ch = "c" -> 99 [] ch = "d" -> 100 [] ch = "f" -> 102 [] ch = "i" -> 105
    [] ch = "n" -> 110 [] ch = "o" -> 111 [] ch = "s" -> 115 [] ch = "t" -> 116
    [] ch = "u" -> 117 [] OTHER -> 0

\* a < b in SQLite's BINARY collation
RECURSIVE StrLess(_, _)
StrLess(a, b) ==
  IF b = <<>> THEN FALSE
  ELSE IF a = <<>> THEN TRUE
  ELSE IF CharCode(Head(a)) # CharCode(Head(b))
       THEN CharCode(Head(a)) < CharCode(Head(b))
       ELSE StrLess(Tail(a), Tail(b))

\* the decimal digits of a line number, as the template literal writes them
RECURSIVE Decimal(_)
Decimal(n) ==
  LET digit == <<"0", "1", "2", "3", "4", "5", "6", "7", "8", "9">>[(n % 10) + 1]
  IN IF n < 10 THEN <<digit>> ELSE Append(Decimal(n \div 10), digit)

\* the characters of an element type
typeText(type) ==
  IF type = "function" THEN kwFunction ELSE <<"c", "l", "a", "s", "s">>

\* the string `${type}:${name}:${lineNumber}` of an id
idText(id) == typeText(id[1]) \o <<":">> \o id[2] \o <<":">> \o Decimal(id[3])

\* x goes before y in the order named by key
Before(key, x, y) ==
  IF key = "name" THEN StrLess(x.name, y.name)
  ELSE IF key = "start" THEN x.start < y.start
  ELSE x.relevanceScore > y.relevanceScore

\* stable insertion of x into a sequence sorted by key
RECURSIVE InsertSorted(_, _, _)
InsertSorted(sorted, x, key) ==
  IF sorted = <<>> THEN <<x>>
  ELSE IF Before(key, x, Head(sorted)) THEN <<x>> \o sorted
       ELSE <<Head(sorted)>> \o InsertSorted(Tail(sorted), x, key)

\* stable sort of todo by key
RECURSIVE StableSort(_, _, _)
StableSort(todo, sorted, key) ==
  IF todo = <<>> THEN sorted
  ELSE StableSort(Tail(todo), InsertSorted(sorted, Head(todo), key), key)

\* String.prototype.substring(from, to): both indexes are cut to the length
\* of the string and taken in order
substring(s, from, to) ==
  LET a == Min2(Max2(from, 0), Len(s))
      b == Min2(Max2(to, 0), Len(s))
  IN SubSeq(s, Min2(a, b) + 1, Max2(a, b))

\* the highlights the while loop of generateHighlights pushes for one term,
\* from the occurrence at index on
RECURSIVE termSpans(_, _, _, _)
termSpans(content, lowerContent, term, index) ==
  IF index = -1 THEN <<>>
  ELSE <<[start |-> index, end |-> index + Len(term),
          text |-> substring(content, index, index + Len(term))]>>
       \o termSpans(content, lowerContent, term,
                    indexOf(lowerContent, term, index + 1))

\* the highlights of the terms, in the order of the terms
RECURSIVE allSpans(_, _, _)
allSpans(content, lowerContent, terms) ==
  IF terms = <<>> THEN <<>>
  ELSE termSpans(content, lowerContent, Head(terms),
                 indexOf(lowerContent, Head(terms), 0))
       \o allSpans(content, lowerContent, Tail(terms))

\* the loop of mergeHighlights from highlights[i] on: current.end is assigned
\* before current.text is extended by next.text.substring(current.end -
\* next.start)
RECURSIVE mergeFrom(_, _, _)
mergeFrom(rest, current, merged) ==
  IF rest = <<>> THEN Append(merged, current)
  ELSE IF Head(rest).start <= current.end
       THEN LET next == Head(rest)
                end == Max2(current.end, next.end)
            IN mergeFrom(Tail(rest),
                         [current EXCEPT
                            !.end = end,
                            !.text = @ \o substring(next.text, end - next.start,
                                                    Len(next.text))],
                         merged)
       ELSE mergeFrom(Tail(rest), Head(rest), Append(merged, current))

mergeHighlights(highlights) ==
  IF highlights = <<>> THEN <<>>
  ELSE mergeFrom(Tail(highlights), Head(highlights), <<>>)

\* generateHighlights: whether it returns, and the highlights it returns.  For
\* an empty term indexOf never yields -1 and the while loop does not end
generateHighlights(query, content) ==
  LET queryTerms == split(toLowerCase(query))
      lowerContent == toLowerCase(content)
  IN IF \E n \in 1..Len(queryTerms) : queryTerms[n] = <<>>
     THEN [returns |-> FALSE, spans |-> <<>>]
     ELSE [returns |-> TRUE,
           spans |-> mergeHighlights(
                       StableSort(allSpans(content, lowerContent, queryTerms),
                                  <<>>, "start"))]

\* the forEach of generateSemanticHighlights from sentence k on, with
\* currentPos at pos
RECURSIVE sentenceSpans(_, _, _, _, _)
sentenceSpans(content, queryTerms, sentences, k, pos) ==
  IF k > Len(sentences) THEN <<>>
  ELSE LET sentence == sentences[k]
           hits == CountSeq(queryTerms,
                            LAMBDA t : includes(toLowerCase(sentence), t))
           start == indexOf(content, sentence, pos)
       IN IF 10 * hits > 3 * Len(queryTerms) /\ start # -1
          THEN <<[start |-> start, end |-> start + Len(sentence)]>>
               \o sentenceSpans(content, queryTerms, sentences, k + 1,
                                start + Len(sentence))
          ELSE sentenceSpans(content, queryTerms, sentences, k + 1, pos)

generateSemanticHighlights(query, content) ==
  sentenceSpans(content, split(toLowerCase(query)),
                SplitSentences(content, 1, <<>>, FALSE, <<>>), 1, 0)

\* name LIKE ? OR content LIKE ? OR signature LIKE ? with the pattern %term%
likeTerm(row, term) ==
  \/ includes(toLowerCase(row.name), toLowerCase(term))
  \/ includes(toLowerCase(row.content), toLowerCase(term))
  \/ includes(toLowerCase(row.signature), toLowerCase(term))

\* file_path LIKE '%.ext' for one of the filter's file types
likeFileType(row, filters) ==
  filters.fileTypes # {} =>
    \E ext \in filters.fileTypes : extname(row.filePath) = "." \o ext

\* queryText.split(/\s+/).filter((term) => term.length > 0)
searchTerms(text) == SelectSeq(split(text), LAMBDA t : Len(t) > 0)

\* the SELECT of performTextSearch: the rows that match every term and the
\* file types, ORDER BY name, LIMIT maxResults * 2
textSearchRows(tbl, q) ==
  LET terms == searchTerms(q.queryText)
      hit(r) == (\A n \in 1..Len(terms) : likeTerm(r, terms[n]))
                /\ likeFileType(r, q.filters)
      rows == SelectSeq(tbl, hit)
      byName == StableSort(rows, <<>>, "name")
  IN SubSeq(byName, 1, Min2(Len(byName), maxResults * 2))

\* a relevance that is the mean of the name, content and signature scores
calculateTextRelevanceMean(text, row) ==
  LET queryTerms == split(toLowerCase(text))
      n == Len(queryTerms)
      hits(field) == CountSeq(queryTerms, LAMBDA t : includes(toLowerCase(field), t))
      nameScore == IF toLowerCase(row.name) = toLowerCase(text) THEN ScoreOne
                   ELSE (hits(row.name) * 8 * ScoreOne) \div (10 * n)
  IN Min2((nameScore + (hits(row.content) * 6 * ScoreOne) \div (10 * n)
                     + (hits(row.signature) * 4 * ScoreOne) \div (10 * n)) \div 3,
          ScoreOne)

\* calculateTextRelevance, in the fixed-point scale
calculateTextRelevance(text, row) ==
  LET queryTerms == split(toLowerCase(text))
      n == Len(queryTerms)
      name == toLowerCase(row.name)
      content == toLowerCase(row.content)
      signature == toLowerCase(row.signature)
      nameMatches == CountSeq(queryTerms, LAMBDA t : includes(name, t))
      contentMatches == CountSeq(queryTerms, LAMBDA t : includes(content, t))
      signatureMatches == CountSeq(queryTerms, LAMBDA t : includes(signature, t))
      nameScore == IF name = toLowerCase(text) THEN ScoreOne
                   ELSE (nameMatches * 8 * ScoreOne) \div (10 * n)
      score == nameScore + (contentMatches * 6 * ScoreOne) \div (10 * n)
                         + (signatureMatches * 4 * ScoreOne) \div (10 * n)
  IN Min2(score, ScoreOne)

\* the SearchResult performTextSearch builds for one row
textResult(q, row) ==
  [id |-> <<"text", row.id, now>>, queryId |-> q.id, elementId |-> row.id,
   relevanceScore |-> calculateTextRelevance(q.queryText, row),
   matchType |-> "exact", rank |-> 0, filePath |-> row.filePath]

\* a performTextSearch without the return for an empty list of terms
performTextSearchUnguarded(q) ==
  LET rows == textSearchRows(code_index, q)
      all == [n \in 1..Len(rows) |-> textResult(q, rows[n])]
  IN SelectSeq(all, LAMBDA r : r.relevanceScore >= minScore)

\* performTextSearch on the rows the store holds now
performTextSearch(q) ==
  IF searchTerms(q.queryText) = <<>> THEN <<>>
  ELSE LET rows == textSearchRows(code_index, q)
           all == [n \in 1..Len(rows) |-> textResult(q, rows[n])]
       IN SelectSeq(all, LAMBDA r : r.relevanceScore >= minScore)

\* the loop of performTextSearch over the rows ends: generateHighlights
\* returns for every row that reaches minScore
textSearchReturns(q) ==
  searchTerms(q.queryText) # <<>> =>
    \A n \in 1..Len(textSearchRows(code_index, q)) :
      LET row == textSearchRows(code_index, q)[n]
      IN calculateTextRelevance(q.queryText, row) >= minScore
         => generateHighlights(q.queryText, row.content).returns

\* searchVectorEmbeddings: the vector store returns no match
searchVectorEmbeddings == <<>>

\* the loop of performSemanticSearch over the vector results
semanticResults(q, vectorResults) ==
  LET kept == SelectSeq(vectorResults, LAMBDA v : v.score >= minScore)
  IN [n \in 1..Len(kept) |->
        [id |-> <<"semantic", kept[n].id, now>>, queryId |-> q.id,
         elementId |-> kept[n].id, relevanceScore |-> kept[n].score,
         matchType |-> "semantic", rank |-> 0, filePath |-> kept[n].filePath]]

\* the score performHybridSearch gives a result found by both strategies
hybridScore(l, s) == Max2(l, (s * 12) \div 10)

\* the merge of performHybridSearch: text results first, a semantic result
\* either updates the entry of its element or is added after the others
RECURSIVE mergeSemantic(_, _)
mergeSemantic(combined, sem) ==
  IF sem = <<>> THEN combined
  ELSE LET r == Head(sem)
           at == {n \in 1..Len(combined) : combined[n].elementId = r.elementId}
       IN IF at = {}
          THEN mergeSemantic(Append(combined, r), Tail(sem))
          ELSE LET n == CHOOSE m \in at : TRUE
               IN mergeSemantic(
                    [combined EXCEPT
                       ![n].relevanceScore = hybridScore(@, r.relevanceScore),
                       ![n].matchType = "hybrid"],
                    Tail(sem))

\* combinedResults.set for the text results: a later result of the same
\* element replaces the earlier one in place
RECURSIVE setAll(_, _)
setAll(combined, res) ==
  IF res = <<>> THEN combined
  ELSE LET r == Head(res)
           at == {n \in 1..Len(combined) : combined[n].elementId = r.elementId}
       IN IF at = {} THEN setAll(Append(combined, r), Tail(res))
          ELSE setAll([combined EXCEPT ![CHOOSE m \in at : TRUE] = r], Tail(res))

performHybridSearch(text, sem) == mergeSemantic(setAll(<<>>, text), sem)

\* applyFilters: no filter is enforced
applyFilters(results, filters) == results

\* a sort with the comparison inverted: ascending relevanceScore
sortByRelevanceAscending(results) ==
  LET d == StableSort(results, <<>>, "relevanceScore")
  IN [n \in 1..Len(d) |-> d[Len(d) + 1 - n]]

\* results.sort((a, b) => b.relevanceScore - a.relevanceScore), a stable sort
sortByRelevance(results) == StableSort(results, <<>>, "relevanceScore")

\* search after the strategy returned: filter, sort, slice
rankResults(results, filters) ==
  LET sorted == sortByRelevance(applyFilters(results, filters))
  IN SubSeq(sorted, 1, Min2(Len(sorted), maxResults))

\* a storeSearchQuery that writes its result rows with INSERT OR REPLACE
storeResultsReplacing(tbl, results) ==
  [rows |-> {r \in tbl : \A n \in 1..Len(results) : r.id # results[n].id}
              \cup Range(results),
   ok |-> TRUE]

\* a storeSearchQuery that returns without writing the result rows
storeResultsDropped(tbl, results) == [rows |-> tbl, ok |-> TRUE]

\* storeSearchQuery: the query row, then one row per result, until a primary
\* key rejects an insert; the rows written and whether all were accepted
RECURSIVE storeResults(_, _)
storeResults(tbl, results) ==
  IF results = <<>> THEN [rows |-> tbl, ok |-> TRUE]
  ELSE IF \E r \in tbl : r.id = Head(results).id
       THEN [rows |-> tbl, ok |-> FALSE]
       ELSE storeResults(tbl \cup {Head(results)}, Tail(results))

queryRow(q) == [id |-> q.id, queryText |-> q.queryText, searchType |-> q.searchType]

NoQuery == [id |-> "", queryText |-> <<>>, searchType |-> "", filters |-> NoFilters]

\* what is kept of the call before: its query and results, whether it
\* returned, whether it read the store with no indexing call in flight, and
\* the indexing calls started by then; together: the search was in flight
\* at the same time as another one
NoPrior == [query |-> NoQuery, results |-> <<>>, returned |-> FALSE,
            quiet |-> FALSE, callsAt |-> 0]

IdleSearch == [pc |-> "idle", query |-> NoQuery,
               textResults |-> <<>>, semanticResults |-> <<>>,
               results |-> <<>>, status |-> "none", error |-> "",
               torn |-> FALSE, gone |-> {}, fellBack |-> FALSE,
               quiet |-> FALSE, callsAt |-> 0, prior |-> NoPrior,
               together |-> FALSE]

\* the call in slot i has deleted the rows of its path and has not returned
Replacing(i) ==
  IF idx[i].kind = "updateFile"
  THEN idx[i].pc \in {"removed", "lookup", "insert"}
  ELSE idx[i].pc = "insert"

\* what a reader selects of a row set: every column but the hash
Visible(rows) == {[r EXCEPT !.hash = NoRow] : r \in rows}

\* the rows the replacement in slot i is putting in place
NewRows(i) ==
  LET p == idx[i].path
      c == IF idx[i].content # NoFile THEN idx[i].content ELSE fs[p]
  IN IF c = NoFile THEN {} ELSE FullSet(p, c)

\* a read of the store for query q now sees, for the path of some undisturbed
\* running replacement, neither what matched before it nor what will match
\* after it
TornRead(q) ==
  \E i \in IdxSlots :
    /\ Replacing(i)
    /\ idx[i].clean
    /\ LET p == idx[i].path
           hit(rows) == Visible({r \in rows :
                          \A n \in 1..Len(searchTerms(q.queryText)) :
                            likeTerm(r, searchTerms(q.queryText)[n])})
       IN /\ searchTerms(q.queryText) # <<>>
          /\ hit(Range(RowsOf(code_index, p))) # hit(Range(idx[i].before))
          /\ hit(Range(RowsOf(code_index, p))) # hit(NewRows(i))

\* no indexing call is in flight
Quiet == \A i \in IdxSlots : idx[i].pc \in {"idle", "done"}

\* the paths an undisturbed removeFile has emptied, with no call on them since
Gone == {p \in Paths : removed[p]}

\* a new search takes the first slot whose call has settled
FreeSearch(s) ==
  /\ srch[s].pc \in {"idle", "done"}
  /\ \A j \in SrchSlots : j < s => srch[j].pc \notin {"idle", "done"}

\* some search has not settled
SearchPending == \E j \in SrchSlots : srch[j].pc \notin {"idle", "done"}

\* the searches, each one in flight marked as running together with another
Together ==
  [j \in SrchSlots |->
     IF srch[j].pc \notin {"idle", "done"} THEN [srch[j] EXCEPT !.together = TRUE]
     ELSE srch[j]]

\* a search that rejects with the error message
Failed(sr, message) ==
  [sr EXCEPT !.pc = "done", !.status = "rejected", !.error = message]

\* search(query) up to its first await: the strategy is dispatched;
\* performTextSearch issues its SELECT, performSemanticSearch awaits the
\* query embedding; a search whose generateHighlights does not return stays
\* in that loop (pc "highlights")
SearchStart(s, q) ==
  /\ FreeSearch(s)
  /\ searches' = searches + 1
  /\ LET new == [IdleSearch EXCEPT
                   !.query = q, !.gone = Gone, !.quiet = Quiet,
                   !.callsAt = calls, !.together = SearchPending,
                   !.prior = [query |-> srch[s].query,
                              results |-> srch[s].results,
                              returned |-> srch[s].status = "resolved",
                              quiet |-> srch[s].quiet,
                              callsAt |-> srch[s].callsAt]]
         read == [new EXCEPT !.textResults = performTextSearch(q),
                             !.torn = TornRead(q)]
     IN srch' = [Together EXCEPT ![s] =
          IF q.searchType # "semantic" /\ svc.searchDb # "open"
          THEN Failed(new, NotInitialized)
          ELSE IF q.searchType # "semantic" /\ ~textSearchReturns(q)
          THEN [new EXCEPT !.pc = "highlights"]
          ELSE IF q.searchType = "text" THEN [read EXCEPT !.pc = "rank"]
          ELSE IF q.searchType = "hybrid" THEN [read EXCEPT !.pc = "embedding"]
          ELSE [new EXCEPT !.pc = "embedding"]]
  /\ UNCHANGED <<svc, hl, fs, code_index, search_queries, search_results, idx, now,
                 calls, edits, faults, lastOk, removed>>

\* a performSemanticSearch that lets the failure of the provider reach the
\* caller
SearchEmbedRaises(s) ==
  /\ srch[s].pc = "embedding"
  /\ \E available \in BOOLEAN :
       LET sr == srch[s]
       IN srch' = [srch EXCEPT ![s] =
            IF available
            THEN [sr EXCEPT !.pc = "rank",
                            !.semanticResults =
                              semanticResults(sr.query, searchVectorEmbeddings)]
            ELSE [sr EXCEPT !.pc = "done", !.fellBack = TRUE,
                            !.status = "rejected", !.error = "EMBEDDING"]]
  /\ UNCHANGED <<svc, hl, fs, code_index, search_queries, search_results, idx, now,
                 calls, searches, edits, faults, lastOk, removed>>

\* performSemanticSearch after getQueryEmbedding: the vector search, or on a
\* failure of the embedding provider the fallback to performTextSearch
SearchEmbed(s) ==
  /\ srch[s].pc = "embedding"
  /\ \E available \in BOOLEAN :
       LET sr == srch[s]
       IN srch' = [srch EXCEPT ![s] =
            IF available
            THEN [sr EXCEPT !.pc = "rank",
                            !.semanticResults =
                              semanticResults(sr.query, searchVectorEmbeddings)]
            ELSE IF svc.searchDb # "open"
            THEN Failed([sr EXCEPT !.fellBack = TRUE], NotInitialized)
            ELSE IF ~textSearchReturns(sr.query)
            THEN [sr EXCEPT !.pc = "highlights", !.fellBack = TRUE]
            ELSE [sr EXCEPT !.pc = "rank", !.fellBack = TRUE,
                            !.semanticResults = performTextSearch(sr.query),
                            !.torn = sr.torn \/ TornRead(sr.query),
                            !.gone = sr.gone \cap Gone,
                            !.quiet = sr.quiet /\ Quiet]]
  /\ UNCHANGED <<svc, hl, fs, code_index, search_queries, search_results, idx, now,
                 calls, searches, edits, faults, lastOk, removed>>

\* the results of the dispatched strategy
strategyResults(sr) ==
  CASE sr.query.searchType = "text" -> sr.textResults
    [] sr.query.searchType = "semantic" -> sr.semanticResults
    [] OTHER -> performHybridSearch(sr.textResults, sr.semanticResults)

\* search after the strategy resolved: filter, sort, slice, storeSearchQuery,
\* return; getDatabase without a connection or a rejected insert makes
\* search reject
SearchFinish(s) ==
  /\ srch[s].pc = "rank"
  /\ LET q == srch[s].query
         results == rankResults(strategyResults(srch[s]), q.filters)
         stored == storeResults(search_results, results)
     IN IF svc.searchDb # "open"
        THEN /\ srch' = [srch EXCEPT ![s] = Failed(@, NotInitialized)]
             /\ UNCHANGED <<search_queries, search_results>>
        ELSE IF \E r \in search_queries : r.id = q.id
        THEN /\ srch' = [srch EXCEPT ![s] = Failed(@, "SQLITE_CONSTRAINT")]
             /\ UNCHANGED <<search_queries, search_results>>
        ELSE /\ search_queries' = search_queries \cup {queryRow(q)}
             /\ search_results' = stored.rows
             /\ srch' = [srch EXCEPT ![s].pc = "done",
                           ![s].status = IF stored.ok THEN "resolved" ELSE "rejected",
                           ![s].error = IF stored.ok THEN "" ELSE "SQLITE_CONSTRAINT",
                           ![s].results = IF stored.ok THEN results ELSE <<>>]
  /\ UNCHANGED <<svc, hl, fs, code_index, idx, now, calls, searches, edits, faults,
                 lastOk, removed>>

(***************************************************************************)
(* Highlights                                                              *)
(***************************************************************************)
\* query texts and element contents of up to MaxText characters
MaxText == 3
HlChars == {"a", " ", "."}
RECURSIVE TextsUpTo(_)
TextsUpTo(n) ==
  IF n = 0 THEN {<<>>}
  ELSE LET shorter == TextsUpTo(n - 1)
       IN shorter \cup {Append(t, ch) : t \in shorter, ch \in HlChars}

NoHighlights == [pc |-> "idle", query |-> <<>>, content |-> <<>>,
                 lexical |-> [returns |-> FALSE, spans |-> <<>>],
                 semantic |-> <<>>]

\* performTextSearch calls generateHighlights for a row
HighlightText ==
  /\ hl.pc = "input"
  /\ hl' = [hl EXCEPT !.pc = "lexical",
                      !.lexical = generateHighlights(hl.query, hl.content)]
  /\ UNCHANGED <<svc, fs, code_index, search_queries, search_results, idx,
                 srch, now, calls, searches, edits, faults, lastOk, removed>>

\* performSemanticSearch calls generateSemanticHighlights for a vector result
HighlightSemantic ==
  /\ hl.pc = "lexical"
  /\ hl' = [hl EXCEPT !.pc = "done",
                      !.semantic = generateSemanticHighlights(hl.query, hl.content)]
  /\ UNCHANGED <<svc, fs, code_index, search_queries, search_results, idx,
                 srch, now, calls, searches, edits, faults, lastOk, removed>>

(***************************************************************************)
(* Environment                                                             *)
(***************************************************************************)
\* a source file is written, created or deleted outside the service
Edit(p, c) ==
  /\ c # fs[p]
  /\ fs' = [fs EXCEPT ![p] = c]
  /\ edits' = edits + 1
  /\ UNCHANGED <<svc, hl, code_index, search_queries, search_results, idx, srch, now,
                 calls, searches, faults, lastOk, removed>>

\* Date.now() passes to the next millisecond
Tick ==
  /\ now' = now + 1
  /\ UNCHANGED <<svc, hl, fs, code_index, search_queries, search_results, idx, srch,
                 calls, searches, edits, faults, lastOk, removed>>

(***************************************************************************)
(* Specification                                                           *)
(***************************************************************************)
InitServices ==
  /\ fs = [p \in Paths |-> IF p = "a.ts" THEN 1 ELSE 3]
  /\ code_index = <<>>
  /\ search_queries = {}
  /\ search_results = {}
  /\ idx = [i \in IdxSlots |-> IdleOp]
  /\ srch = [s \in SrchSlots |-> IdleSearch]
  /\ now = 0
  /\ calls = 0
  /\ searches = 0
  /\ edits = 0
  /\ faults = 0
  /\ lastOk = [p \in Paths |-> NoFile]
  /\ removed = [p \in Paths |-> FALSE]

Init == InitServices /\ hl = NoHighlights /\ svc = OpenServices

\* the queries and texts of the callers of Spec
EarlyQueries == {q \in Queries : q.id \in {"q1", "q2"}}
EarlyTexts(p) == TextsOf(p) \ {4}

\* callers that index, remove, update and search at any time
Next ==
  \/ \E i \in IdxSlots, p \in Paths : calls < MaxCalls /\ StartIndexFile(i, p)
  \/ \E i \in IdxSlots : IndexCheck(i)
  \/ \E i \in IdxSlots : IndexInsert(i)
  \/ \E i \in IdxSlots, p \in Paths : calls < MaxCalls /\ StartRemoveFile(i, p)
  \/ \E i \in IdxSlots, p \in Paths : calls < MaxCalls /\ StartUpdateFile(i, p)
  \/ \E i \in IdxSlots : UpdateIndex(i)
  \/ \E s \in SrchSlots, q \in EarlyQueries :
       searches < MaxSearches /\ SearchStart(s, q)
  \/ \E s \in SrchSlots : SearchEmbed(s)
  \/ \E s \in SrchSlots : SearchFinish(s)
  \/ \E p \in Paths : \E c \in EarlyTexts(p) \cup {NoFile} :
       edits < MaxEdits /\ Edit(p, c)

Spec == Init /\ [][Next]_vars

\* no call is in flight
Idle == Quiet /\ \A s \in SrchSlots : srch[s].pc \in {"idle", "done"}

\* one caller that makes one call at a time, on a store that accepts every
\* statement: up to MaxCalls indexFile calls and up to MaxRepeats searches;
\* files change and the clock advances between the calls
NextSearch ==
  \/ \E i \in IdxSlots, p \in Paths :
       Idle /\ calls < MaxCalls /\ StartIndexFile(i, p)
  \/ \E i \in IdxSlots : IndexCheck(i) /\ faults' = faults
  \/ \E i \in IdxSlots : IndexInsert(i) /\ faults' = faults
  \/ \E s \in SrchSlots, q \in Queries :
       Idle /\ searches < MaxRepeats /\ SearchStart(s, q)
  \/ \E s \in SrchSlots : SearchEmbed(s)
  \/ \E s \in SrchSlots : SearchFinish(s)
  \/ \E p \in Paths : \E c \in TextsOf(p) \cup {NoFile} :
       Idle /\ edits < MaxEdits /\ Edit(p, c)
  \/ Idle /\ now < searches /\ searches < MaxRepeats /\ Tick

SpecSearch == Init /\ [][NextSearch]_vars

\* the query ids no search has used
UnusedIds ==
  {q \in Queries :
     /\ \A r \in search_queries : r.id # q.id
     /\ \A j \in SrchSlots : srch[j].query.id # q.id}

\* files are indexed one call at a time; then, on the index as it stands,
\* searches with distinct query ids are made that may be in flight together,
\* within one millisecond
NextConcurrent ==
  \/ \E i \in IdxSlots, p \in Paths :
       Idle /\ searches = 0 /\ calls < MaxCalls /\ StartIndexFile(i, p)
  \/ \E i \in IdxSlots : IndexCheck(i) /\ faults' = faults
  \/ \E i \in IdxSlots : IndexInsert(i) /\ faults' = faults
  \/ \E s \in SrchSlots, q \in UnusedIds :
       Quiet /\ searches < MaxRepeats /\ SearchStart(s, q)
  \/ \E s \in SrchSlots : SearchEmbed(s)
  \/ \E s \in SrchSlots : SearchFinish(s)
  \/ \E p \in Paths : \E c \in TextsOf(p) \cup {NoFile} :
       Idle /\ searches = 0 /\ edits < MaxEdits /\ Edit(p, c)

SpecConcurrent == Init /\ [][NextConcurrent]_vars

\* one caller that indexes files and makes text searches one call at a time,
\* in a workspace where b.js comes to hold many functions
NextRank ==
  \/ \E i \in IdxSlots, p \in Paths :
       Idle /\ calls < MaxCalls /\ StartIndexFile(i, p)
  \/ \E i \in IdxSlots : IndexCheck(i) /\ faults' = faults
  \/ \E i \in IdxSlots : IndexInsert(i) /\ faults' = faults
  \/ \E s \in SrchSlots, q \in RankQueries :
       Idle /\ searches < MaxSearches /\ SearchStart(s, q)
  \/ \E s \in SrchSlots : SearchFinish(s)
  \/ Idle /\ edits < MaxEdits /\ Edit("b.js", LargeText)

SpecRank == Init /\ [][NextRank]_vars

\* no call of either service is in flight
AllIdle == Idle /\ ~RunPending

\* initialized services on a store and a file enumeration that may fail:
\* indexWorkspace and rebuildIndex calls that may overlap each other, while
\* files change
NextWorkspace ==
  \/ \E w \in RunSlots : Idle /\ svc.runs < MaxRuns /\ StartIndexWorkspace(w)
  \/ \E w \in RunSlots : Idle /\ svc.runs < MaxRuns /\ StartRebuildIndex(w)
  \/ \E w \in RunSlots : RebuildIndexWorkspace(w)
  \/ \E w \in RunSlots : RunEnumerate(w)
  \/ \E w \in RunSlots, i \in IdxSlots : RunFile(w, i)
  \/ \E i \in IdxSlots : IndexCheck(i)
  \/ \E i \in IdxSlots : IndexInsert(i)
  \/ \E w \in RunSlots : RunCollect(w)
  \/ \E w \in RunSlots : RunCount(w)
  \/ \E p \in Paths : \E c \in EarlyTexts(p) \cup {NoFile} :
       edits < MaxEdits /\ Edit(p, c)

SpecWorkspace == Init /\ [][NextWorkspace]_vars

\* the services from construction on, on a store that accepts every
\* statement: initialize and dispose of each service, and one caller that
\* makes indexFile, indexWorkspace, rebuildIndex and search calls one at a
\* time
NextLifecycle ==
  \/ AllIdle /\ InitializeIndexing
  \/ AllIdle /\ InitializeSearch
  \/ AllIdle /\ DisposeIndexing
  \/ AllIdle /\ DisposeSearch
  \/ \E i \in IdxSlots, p \in Paths :
       AllIdle /\ calls < MaxCalls /\ StartIndexFile(i, p)
  \/ \E i \in IdxSlots : IndexCheck(i) /\ faults' = faults
  \/ \E i \in IdxSlots : IndexInsert(i) /\ faults' = faults
  \/ \E w \in RunSlots : AllIdle /\ svc.runs < MaxRuns /\ StartIndexWorkspace(w)
  \/ \E w \in RunSlots :
       AllIdle /\ svc.runs < MaxRuns /\ StartRebuildIndex(w) /\ faults' = faults
  \/ \E w \in RunSlots : RebuildIndexWorkspace(w)
  \/ \E w \in RunSlots : RunEnumerate(w) /\ faults' = faults
  \/ \E w \in RunSlots, i \in IdxSlots : RunFile(w, i)
  \/ \E w \in RunSlots : RunCollect(w)
  \/ \E w \in RunSlots : RunCount(w)
  \/ \E s \in SrchSlots, q \in EarlyQueries :
       AllIdle /\ searches < MaxSearches /\ SearchStart(s, q)
  \/ \E s \in SrchSlots : SearchEmbed(s)
  \/ \E s \in SrchSlots : SearchFinish(s)

InitLifecycle == InitServices /\ hl = NoHighlights /\ svc = NewServices

SpecLifecycle == InitLifecycle /\ [][NextLifecycle]_vars

\* queries whose text has white space before, after or between the words
SpacedQueries ==
  [id : {"q6"}, queryText : {<<" ">> \o nmAdd}, searchType : {"text", "semantic"},
   filters : {NoFilters}]
  \cup [id : {"q7"}, queryText : {nmAdd \o <<" ">>}, searchType : {"text", "hybrid"},
        filters : {NoFilters}]
  \cup [id : {"q8"}, queryText : {nmAdd \o <<" ", " ">> \o nmSub},
        searchType : {"text"}, filters : {NoFilters}]
  \cup {q \in Queries : q.id = "q1"}

\* one caller that indexes files and then searches, one call at a time, on a
\* store that accepts every statement; the continuation of every await that
\* has resolved is run
NextTerminate ==
  \/ \E i \in IdxSlots, p \in Paths :
       Idle /\ calls < MaxCalls /\ StartIndexFile(i, p)
  \/ \E i \in IdxSlots : IndexCheck(i) /\ faults' = faults
  \/ \E i \in IdxSlots : IndexInsert(i) /\ faults' = faults
  \/ \E s \in SrchSlots, q \in SpacedQueries :
       Idle /\ searches < MaxSearches /\ SearchStart(s, q)
  \/ \E s \in SrchSlots : SearchEmbed(s)
  \/ \E s \in SrchSlots : SearchFinish(s)

SpecTerminate ==
  /\ Init
  /\ [][NextTerminate]_vars
  /\ WF_vars(\E s \in SrchSlots : SearchEmbed(s))
  /\ WF_vars(\E s \in SrchSlots : SearchFinish(s))

\* the two highlight functions applied to a query text and a content
InitHighlight ==
  /\ InitServices
  /\ svc = OpenServices
  /\ hl \in {[NoHighlights EXCEPT !.pc = "input", !.query = q, !.content = c] :
               q \in TextsUpTo(MaxText - 1), c \in TextsUpTo(MaxText)}

NextHighlight == HighlightText \/ HighlightSemantic

SpecHighlight == InitHighlight /\ [][NextHighlight]_vars

(***************************************************************************)
(* Claims                                                                  *)
(***************************************************************************)
Settled(i) == idx[i].pc = "done"

\* C1: while an indexFile or updateFile replaces the rows of a changed file,
\* no search reads an intermediate state: what it reads of that path is what
\* it would read of the complete old set or of the complete new set.
C1_NoReaderSeesPartialReplacement ==
  \A s \in SrchSlots : ~srch[s].torn

\* C2: when a store statement fails inside an indexFile(p) that runs with no
\* other call on p, the rows stored for p after the call are the rows stored
\* before it.
C2_FailedReplacePreservesRows ==
  \A i \in IdxSlots :
    (/\ Settled(i) /\ idx[i].kind = "indexFile" /\ idx[i].clean
     /\ idx[i].result.error \in {"SQLITE_IOERR", "SQLITE_CONSTRAINT"})
    => RowsOf(code_index, idx[i].path) = idx[i].before

\* C3: two re-index operations on one path never interleave: no call deletes
\* the rows of a path while another call that has deleted them has inserts
\* left to do.
C3_ReindexSerializedPerPath ==
  \A i, j \in IdxSlots :
    (i # j /\ idx[i].path = idx[j].path) => ~(Replacing(i) /\ Replacing(j))

\* C4: after an indexFile(p) that completed, with the text of p unchanged and
\* no other call on p since, a second indexFile(p) returns elementsIndexed = 0
\* and none of its steps changes a row of code_index.
C4_SecondIndexIsNoOp ==
  /\ [](\A i \in IdxSlots :
          (Settled(i) /\ idx[i].idem) => idx[i].result = Resolved(TRUE, 0, "", ""))
  /\ [][\A i \in IdxSlots :
          (idx'[i].idem /\ (idx'[i].pc # idx[i].pc \/ idx'[i].k # idx[i].k))
          => code_index' = code_index]_vars

\* C4 witness: a second indexFile found the rows of the first and returned
C4_Witness ==
  \E i \in IdxSlots : Settled(i) /\ idx[i].idem /\ idx[i].before # <<>>

\* C5: after an indexFile(p) that ran with no other call on p, found another
\* hash than that of the text and completed with success, the rows of p are
\* the rows of the elements extracted from the text, each with the hash of
\* the text, and elementsIndexed is the number of rows inserted.
C5_ReindexStoresNewSet ==
  \A i \in IdxSlots :
    (/\ Settled(i) /\ idx[i].kind = "indexFile" /\ idx[i].clean
     /\ idx[i].replaced /\ idx[i].result.success)
    => LET rows == RowsOf(code_index, idx[i].path)
       IN /\ Range(rows) = FullSet(idx[i].path, idx[i].content)
          /\ Len(rows) = idx[i].result.elementsIndexed
          /\ \A n \in 1..Len(rows) : rows[n].hash = getFileHash(idx[i].content)

\* C5 witness: an indexFile replaced rows that carried the hash of another text
C5_Witness ==
  \E i \in IdxSlots :
    /\ Settled(i) /\ idx[i].kind = "indexFile" /\ idx[i].clean
    /\ idx[i].replaced /\ idx[i].result.success
    /\ idx[i].before # <<>>
    /\ idx[i].before[1].hash # getFileHash(idx[i].content)
    /\ idx[i].result.elementsIndexed = 2

\* the indexFile in slot i found no file at its path
FileWasMissing(i) ==
  /\ Settled(i) /\ idx[i].kind = "indexFile"
  /\ extname(idx[i].path) \in supportedExtensions
  /\ idx[i].content = NoFile

C7_RemovedFileNotFound ==
  /\ \A i \in IdxSlots :
       (/\ Settled(i) /\ idx[i].kind = "removeFile" /\ idx[i].clean
        /\ idx[i].result.status = "resolved")
       => RowsOf(code_index, idx[i].path) = <<>>
  /\ \A s \in SrchSlots :
       srch[s].pc = "done" =>
         \A n \in 1..Len(srch[s].results) :
           srch[s].results[n].filePath \notin srch[s].gone

\* C7 witness: a search returned after a removeFile deleted rows of a path
C7_Witness ==
  \E s \in SrchSlots, i \in IdxSlots :
    /\ srch[s].pc = "done" /\ srch[s].status = "resolved"
    /\ Settled(i) /\ idx[i].kind = "removeFile" /\ idx[i].clean
    /\ idx[i].before # <<>>
    /\ idx[i].path \in srch[s].gone

\* C8: rows are keyed by (filePath, type, name, lineNumber): the store never
\* rejects an element of one file because another file holds an element of
\* the same type, name and line.
C8_KeyIncludesFilePath ==
  \A i \in IdxSlots :
    (Settled(i) /\ idx[i].result.error = "SQLITE_CONSTRAINT")
    => idx[i].result.conflictPath = idx[i].path

\* C9: a hybrid search returns every element found by both strategies, with
\* scores L and S, once, with relevanceScore = min(1, max(L, 1.2 * S)) and
\* matchType hybrid.
C9_HybridMergeLaw ==
  \A s \in SrchSlots :
    (srch[s].pc = "done" /\ srch[s].status = "resolved"
     /\ srch[s].query.searchType = "hybrid")
    => \A n \in 1..Len(srch[s].results) :
         LET r == srch[s].results[n]
             t == {k \in 1..Len(srch[s].textResults) :
                     srch[s].textResults[k].elementId = r.elementId}
             m == {k \in 1..Len(srch[s].semanticResults) :
                     srch[s].semanticResults[k].elementId = r.elementId}
         IN (t # {} /\ m # {}) =>
              LET l == srch[s].textResults[CHOOSE k \in t : TRUE].relevanceScore
                  sc == srch[s].semanticResults[CHOOSE k \in m : TRUE].relevanceScore
              IN /\ r.relevanceScore = Min2(ScoreOne, Max2(l, (sc * 12) \div 10))
                 /\ r.matchType = "hybrid"
                 /\ Cardinality({k \in 1..Len(srch[s].results) :
                                   srch[s].results[k].elementId = r.elementId}) = 1

\* C10: every result a search returns and every row of search_results has a
\* relevanceScore within [0, 1].
C10_ScoresWithinUnitInterval ==
  /\ \A s \in SrchSlots :
       srch[s].pc = "done" =>
         \A n \in 1..Len(srch[s].results) :
           srch[s].results[n].relevanceScore \in 0..ScoreOne
  /\ \A r \in search_results : r.relevanceScore \in 0..ScoreOne

\* the search in slot s has returned a list to its caller
Returned(s) == srch[s].pc = "done" /\ srch[s].status = "resolved"

\* C11: in every list search returns, relevanceScore never increases along
\* the list: for positions i < j the score at i is at least the score at j.
C11_ResultsSortedByScore ==
  \A s \in SrchSlots :
    Returned(s) =>
      \A i, j \in 1..Len(srch[s].results) :
        i < j => srch[s].results[i].relevanceScore
                   >= srch[s].results[j].relevanceScore

\* C11 witness: a search returned two results of different scores
C11_Witness ==
  \E s \in SrchSlots :
    /\ Returned(s) /\ Len(srch[s].results) = 2
    /\ srch[s].results[1].relevanceScore > srch[s].results[2].relevanceScore

\* C12: in every list search returns, the result at zero-based position i has
\* rank = i.
C12_RankIsPosition ==
  \A s \in SrchSlots :
    Returned(s) =>
      \A n \in 1..Len(srch[s].results) : srch[s].results[n].rank = n - 1

\* C19: when a query carries a file-extension allow-list or an element-type
\* allow-list, every returned result is for an element whose file path ends
\* with an allowed extension and whose type is an allowed element type.
C19_FiltersEnforced ==
  \A s \in SrchSlots :
    Returned(s) =>
      LET f == srch[s].query.filters
      IN \A n \in 1..Len(srch[s].results) :
           LET r == srch[s].results[n]
           IN /\ f.fileTypes # {} =>
                   \E ext \in f.fileTypes : extname(r.filePath) = "." \o ext
              /\ f.elementTypes # {} => r.elementId[1] \in f.elementTypes

\* the store is as the search in slot s read it: the search read it with no
\* indexing call in flight and no indexing call has started since
Fresh(s) == srch[s].quiet /\ srch[s].callsAt = calls

\* what the caller compares of a result list: elements, scores, match types
\* and ranks, in order
Shown(results) ==
  [n \in 1..Len(results) |->
     [elementId |-> results[n].elementId,
      relevanceScore |-> results[n].relevanceScore,
      matchType |-> results[n].matchType, rank |-> results[n].rank]]

\* C13: when two results of one returned list have equal relevanceScore, the
\* one with the smaller element id comes first.
C13_TiesByElementId ==
  \A s \in SrchSlots :
    Returned(s) =>
      \A i, j \in 1..Len(srch[s].results) :
        (i < j /\ srch[s].results[i].relevanceScore
                    = srch[s].results[j].relevanceScore)
        => StrLess(idText(srch[s].results[i].elementId),
                   idText(srch[s].results[j].elementId))

\* C14: a search with the query of the search before it (same id, text and
\* strategy), with no indexing call between the two, returns as the first
\* did, and returns the same elements, scores and ranks in the same order.
C14_RepeatedSearchSameResults ==
  \A s \in SrchSlots :
    LET sr == srch[s]
    IN (/\ sr.pc = "done" /\ sr.prior.returned /\ sr.prior.query = sr.query
        /\ sr.prior.quiet /\ sr.quiet /\ sr.prior.callsAt = sr.callsAt)
       => /\ sr.status = "resolved"
          /\ Shown(sr.results) = Shown(sr.prior.results)

\* C15: when the embedding provider fails, a semantic search does not raise
\* the provider's error, and what it returns is what text search returns for
\* the query on the same store.
C15_SemanticFallsBackToText ==
  \A s \in SrchSlots :
    LET sr == srch[s]
    IN (sr.pc = "done" /\ sr.query.searchType = "semantic" /\ sr.fellBack)
       => /\ sr.error \in {"", "SQLITE_CONSTRAINT"}
          /\ (Returned(s) /\ Fresh(s))
             => Shown(sr.results)
                  = Shown(rankResults(performTextSearch(sr.query), sr.query.filters))

\* C15 witness: a semantic search fell back and returned a stored element
C15_Witness ==
  \E s \in SrchSlots :
    /\ Returned(s) /\ Fresh(s) /\ srch[s].fellBack
    /\ srch[s].query.searchType = "semantic"
    /\ srch[s].results # <<>>

\* C16: the candidates of a text search are the stored elements whose name,
\* content or signature contains at least one token of the query: each of
\* them that reaches minScore is returned, as far as maxResults allows.
C16_AnyTokenIsCandidate ==
  \A s \in SrchSlots :
    LET sr == srch[s]
        terms == searchTerms(sr.query.queryText)
    IN (Returned(s) /\ Fresh(s) /\ sr.query.searchType = "text")
       => \A k \in 1..Len(code_index) :
            LET row == code_index[k]
            IN (/\ \E n \in 1..Len(terms) : likeTerm(row, terms[n])
                /\ likeFileType(row, sr.query.filters)
                /\ calculateTextRelevance(sr.query.queryText, row) >= minScore)
               => \/ \E n \in 1..Len(sr.results) : sr.results[n].elementId = row.id
                  \/ Len(sr.results) = maxResults

\* the stored rows whose name is the query text of the search in slot s
NamedByQuery(s) ==
  {k \in 1..Len(code_index) :
     /\ toLowerCase(code_index[k].name) = toLowerCase(srch[s].query.queryText)
     /\ likeFileType(code_index[k], srch[s].query.filters)}

C18_EmptyQueryEmptyResult ==
  \A s \in SrchSlots :
    LET sr == srch[s]
    IN (/\ sr.pc = "done"
        /\ \A n \in 1..Len(sr.query.queryText) : IsSpace(sr.query.queryText[n]))
       => /\ sr.results = <<>>
          /\ sr.textResults = <<>> /\ sr.semanticResults = <<>>
          /\ sr.status = "rejected" =>
               (sr.error = "SQLITE_CONSTRAINT"
                /\ \E r \in search_queries : r.id = sr.query.id)

\* C18 witness: a hybrid search for white space fell back to text search on a
\* store that holds elements, and returned
C18_Witness ==
  \E s \in SrchSlots :
    /\ Returned(s) /\ Fresh(s) /\ srch[s].fellBack
    /\ srch[s].query.searchType = "hybrid"
    /\ srch[s].query.queryText = <<" ">>
    /\ code_index # <<>>

\* the span lies in a content of len characters and is not empty
SpanWithin(span, len) == 0 <= span.start /\ span.start < span.end /\ span.end <= len

RunSettles(w) == svc'.run[w].pc = "done" /\ svc'.run[w] # svc.run[w]

\* C21: every call of indexWorkspace returns a summary and never throws, also
\* when it is made while another indexWorkspace run is in progress.
C21_IndexWorkspaceNeverThrows ==
  \A w \in RunSlots :
    (svc.run[w].pc = "done" /\ svc.run[w].kind = "indexWorkspace")
    => svc.run[w].status = "resolved"

StorageErrors == {"SQLITE_IOERR", "SQLITE_CONSTRAINT"}

\* C22: when indexing a file fails with a storage error during a run of
\* indexWorkspace that no other run overlaps, the summary returned has
\* success = false and the error of the file in errors, and every other file
\* of the run has the rows of the elements extracted from its text.
C22_FailedFileFailsSummaryOnly ==
  [][\A w \in RunSlots :
       LET r == svc'.run[w]
           failed == {n \in 1..Len(r.indexed) : r.indexed[n].error \in StorageErrors}
       IN (/\ RunSettles(w) /\ r.kind = "indexWorkspace" /\ r.status = "resolved"
           /\ ~r.overlapped /\ failed # {})
          => /\ ~r.summary.success
             /\ \A n \in failed :
                  \E e \in Range(r.summary.errors) :
                    e.file = r.indexed[n].path /\ e.message = r.indexed[n].error
             /\ \A n \in 1..Len(r.indexed) :
                  r.indexed[n].ok =>
                    Range(RowsOf(code_index', r.indexed[n].path))
                      = FullSet(r.indexed[n].path, r.indexed[n].content)]_vars

\* the indexing call of slot i starts in this step
CallStarts(i) == Free(i) /\ calls' = calls + 1

\* the search of slot s settles in this step
SearchSettles(s) == srch'[s].pc = "done" /\ srch'[s] # srch[s]

\* C23: an indexFile or a search made before the store of its service has
\* been initialized raises an error to the caller: it rejects, it is not
\* turned into a returned result, and it writes nothing to the store.
C23_UninitializedStoreRaises ==
  [][/\ \A i \in IdxSlots :
          (/\ CallStarts(i) /\ idx'[i].kind = "indexFile"
           /\ svc.indexDb = "null" /\ ~svc.indexDisposed)
          => idx'[i].result.status = "rejected" /\ code_index' = code_index
     /\ \A s \in SrchSlots :
          (SearchSettles(s) /\ svc.searchDb = "null" /\ ~svc.searchDisposed)
          => /\ srch'[s].status = "rejected"
             /\ search_queries' = search_queries
             /\ search_results' = search_results]_vars

\* C26: IndexingService.indexFile never rejects: when the file cannot be read
\* or another step fails, it resolves with success = false,
\* elementsIndexed = 0 and an error.
C26_IndexFileNeverRejects ==
  \A i \in IdxSlots :
    (Settled(i) /\ idx[i].kind = "indexFile")
    => /\ idx[i].result.status = "resolved"
       /\ ~idx[i].result.success
            => idx[i].result.elementsIndexed = 0 /\ idx[i].result.error # ""

\* C26 witness: an indexFile resolved after a store statement of it failed,
\* and another after it found no file
C26_Witness ==
  \E i, j \in IdxSlots :
    /\ Settled(i) /\ idx[i].kind = "indexFile"
    /\ idx[i].result = Resolved(FALSE, 0, "SQLITE_IOERR", "")
    /\ Settled(j) /\ idx[j].kind = "indexFile"
    /\ idx[j].result = Resolved(FALSE, 0, "ENOENT", "")

\* C27: after dispose() of a service has completed, every later search on the
\* search engine and every later indexWorkspace on the indexing service
\* rejects instead of returning a result.
C27_CallsAfterDisposeReject ==
  [][/\ \A s \in SrchSlots :
          (SearchSettles(s) /\ svc.searchDisposed) => srch'[s].status = "rejected"
     /\ \A w \in RunSlots :
          (/\ RunSettles(w) /\ svc'.run[w].kind = "indexWorkspace"
           /\ svc'.run[w].afterDispose)
          => svc'.run[w].status = "rejected"]_vars

\* C28: an updateFile(p) that runs with no other call on p, on a readable
\* file and a store that accepts its statements, leaves for p the rows of all
\* the elements extracted from the text and returns their number as
\* elementsIndexed, also when the text is the one indexed before.
C28_UpdateFileReindexesFully ==
  \A i \in IdxSlots :
    (/\ Settled(i) /\ idx[i].kind = "updateFile" /\ idx[i].clean
     /\ idx[i].content # NoFile /\ idx[i].result.error # "SQLITE_IOERR")
    => /\ idx[i].result.status = "resolved" /\ idx[i].result.success
       /\ Range(RowsOf(code_index, idx[i].path))
            = FullSet(idx[i].path, idx[i].content)
       /\ idx[i].result.elementsIndexed
            = Len(extractCodeElements(idx[i].path, idx[i].content))

\* the rows of the elements of the files run r enumerated, each with the
\* text the run read of it
RunRows(r) ==
  UNION {FullSet(e.path, e.content) :
           e \in {x \in Range(r.indexed) : x.content # NoFile}}

\* C29: a rebuildIndex whose DELETE the store accepts resolves, also when it
\* is called while other indexing work is pending, and when it resolves the
\* store holds exactly the elements extracted from the files it enumerated.
C29_RebuildResolvesWithFreshStore ==
  /\ [](\A w \in RunSlots :
          (/\ svc.run[w].pc = "done" /\ svc.run[w].kind = "rebuildIndex"
           /\ svc.run[w].error # "SQLITE_IOERR")
          => svc.run[w].status = "resolved")
  /\ [][\A w \in RunSlots :
          (/\ RunSettles(w) /\ svc'.run[w].kind = "rebuildIndex"
           /\ svc'.run[w].status = "resolved")
          => Range(code_index') = RunRows(svc'.run[w])]_vars

\* C24: the audit log is append-only: no step removes or changes a row of
\* search_queries or search_results, and a search that returns has added one
\* query row and one result row for each result it returns.
C24_AuditLogAppendOnly ==
  [][/\ search_queries \subseteq search_queries'
     /\ search_results \subseteq search_results'
     /\ \A s \in SrchSlots :
          (SearchSettles(s) /\ srch'[s].status = "resolved")
          => /\ search_queries' \ search_queries = {queryRow(srch'[s].query)}
             /\ Cardinality(search_results' \ search_results)
                  = Len(srch'[s].results)
             /\ \A n \in 1..Len(srch'[s].results) :
                  srch'[s].results[n] \in search_results' \ search_results]_vars

\* C24 witness: a search returned results after an earlier search of another
\* query had returned results
C24_Witness ==
  \E s \in SrchSlots :
    /\ Returned(s) /\ srch[s].results # <<>>
    /\ srch[s].prior.returned /\ srch[s].prior.results # <<>>
    /\ Cardinality(search_queries) = 2

\* C25: searches with distinct query ids that are in flight at the same time
\* on an unchanging index all complete without error, and a text search
\* among them returns the list it builds from the index alone.
C25_ConcurrentSearchesComplete ==
  \A s \in SrchSlots :
    (srch[s].pc = "done" /\ srch[s].together)
    => /\ srch[s].status = "resolved"
       /\ srch[s].query.searchType = "text"
            => srch[s].results
                 = rankResults(performTextSearch(srch[s].query),
                               srch[s].query.filters)

\* the stored row matches every term of query q, passes its filters and
\* scores at least minScore
Qualifies(row, q) ==
  /\ \A n \in 1..Len(searchTerms(q.queryText)) :
       likeTerm(row, searchTerms(q.queryText)[n])
  /\ likeFileType(row, q.filters)
  /\ q.filters.elementTypes # {} => row.type \in q.filters.elementTypes
  /\ calculateTextRelevance(q.queryText, row) >= minScore

\* C30: the list a text search returns from an index that no call changes is
\* made of the maxResults highest-scoring rows among all stored rows that
\* match the query and pass the filters: no such row that is left out scores
\* strictly higher than a returned one, and none is left out of a list
\* shorter than maxResults.
C30_TruncationAfterScoring ==
  \A s \in SrchSlots :
    (Returned(s) /\ Fresh(s) /\ srch[s].query.searchType = "text"
     /\ searchTerms(srch[s].query.queryText) # <<>>)
    => \A k \in 1..Len(code_index) :
         (/\ Qualifies(code_index[k], srch[s].query)
          /\ \A n \in 1..Len(srch[s].results) :
               srch[s].results[n].elementId # code_index[k].id)
         => /\ Len(srch[s].results) = maxResults
            /\ \A n \in 1..Len(srch[s].results) :
                 calculateTextRelevance(srch[s].query.queryText, code_index[k])
                   <= srch[s].results[n].relevanceScore

\* the stages a search has passed: dispatched, strategy resolved, settled
StageOf(sr) ==
  CASE sr.pc \in {"idle", "done"} -> 3
    [] sr.pc = "rank" -> 2
    [] OTHER -> 1

\* C31: a search passes its stages in the order strategy dispatch, filtering,
\* ranking, persistence, return: the list it returns is the filtered and
\* ranked list of its strategy, it is returned only when the query row and
\* every result row of it are in the audit log, and a search whose
\* persistence fails returns no list.
C31_PersistedBeforeReturned ==
  /\ [](\A s \in SrchSlots :
          /\ Returned(s) =>
               /\ \E r \in search_queries :
                    r.id = srch[s].query.id
                    /\ r.queryText = srch[s].query.queryText
               /\ \A n \in 1..Len(srch[s].results) :
                    srch[s].results[n] \in search_results
          /\ (srch[s].pc = "done" /\ srch[s].status = "rejected")
             => srch[s].results = <<>>)
  /\ [][\A s \in SrchSlots :
          /\ (srch[s].pc \notin {"idle", "done"} /\ srch'[s] # srch[s])
             => StageOf(srch'[s]) > StageOf(srch[s])
          /\ (SearchSettles(s) /\ srch'[s].status = "resolved")
             => /\ srch[s].pc = "rank"
                /\ srch'[s].results
                     = rankResults(strategyResults(srch[s]), srch[s].query.filters)]_vars

\* C31 witness: a search was rejected for the query id of the search before
\* it, which had returned results
C31_Witness ==
  \E s \in SrchSlots :
    /\ srch[s].pc = "done" /\ srch[s].status = "rejected"
    /\ srch[s].error = "SQLITE_CONSTRAINT"
    /\ srch[s].prior.returned /\ srch[s].prior.results # <<>>
    /\ \A n \in 1..Len(srch[s].prior.results) :
         srch[s].prior.results[n] \in search_results

\* C32: every search call settles, it returns or raises, whatever white space
\* its query text holds before, after or between the words and whatever the
\* index holds that matches it.
C32_EverySearchTerminates ==
  \A s \in SrchSlots :
    (srch[s].pc \notin {"idle", "done"}) ~> (srch[s].pc = "done")

\* C33: when the file at p is gone, the removeFile(p) of its deleted event
\* has resolved, no call on p was made after it and every call on p has
\* settled, the store holds no element of p, also when an indexFile or
\* updateFile of p was in flight when the removeFile was made.
C33_DeletedPathStaysEmpty ==
  \A i \in IdxSlots :
    (/\ Settled(i) /\ idx[i].kind = "removeFile" /\ idx[i].latest
     /\ idx[i].result.status = "resolved"
     /\ idx[i].deleted /\ fs[idx[i].path] = NoFile
     /\ \A j \in IdxSlots : idx[j].path = idx[i].path => Settled(j))
    => RowsOf(code_index, idx[i].path) = <<>>

\* C34: an indexFile(p) that runs with no other call on p, on a store that
\* accepts its statements, and that finds for p only a part of the rows of
\* the text it reads, left by a call that failed between its inserts, leaves
\* for p the rows of all the elements extracted from the text.
C34_LaterIndexRepairsPartialSet ==
  \A i \in IdxSlots :
    (/\ Settled(i) /\ idx[i].kind = "indexFile" /\ idx[i].clean
     /\ idx[i].content # NoFile /\ idx[i].result.error # "SQLITE_IOERR"
     /\ idx[i].before # <<>>
     /\ Range(idx[i].before) \subseteq FullSet(idx[i].path, idx[i].content)
     /\ Range(idx[i].before) # FullSet(idx[i].path, idx[i].content))
    => Range(RowsOf(code_index, idx[i].path))
         = FullSet(idx[i].path, idx[i].content)

\* C35: whenever no indexing call on path p is in flight, all the stored
\* rows of p carry one content hash, so that getExistingIndex reads the same
\* hash whichever row of p it is given.
C35_OneHashPerPath ==
  \A p \in Paths :
    (\A j \in IdxSlots : idx[j].path = p => idx[j].pc \in {"idle", "done"})
    => \A m, n \in 1..Len(RowsOf(code_index, p)) :
         RowsOf(code_index, p)[m].hash = RowsOf(code_index, p)[n].hash

\* the indexing call of slot i takes this step
Acts(i) == CallStarts(i) \/ idx'[i].pc # idx[i].pc \/ idx'[i].k # idx[i].k

\* C36: no step of an indexFile(p), updateFile(p) or removeFile(p), of a call
\* that succeeds or of one that fails, changes the stored rows of a path other
\* than p or the tables search_queries and search_results.
C36_OtherPathsUntouched ==
  [][\A i \in IdxSlots :
       Acts(i)
       => /\ \A q \in Paths \ {idx'[i].path} :
               RowsOf(code_index', q) = RowsOf(code_index, q)
          /\ search_queries' = search_queries
          /\ search_results' = search_results]_vars

\* C36 witness: a call on a.ts deleted the rows of a.ts and failed while the
\* store held rows of b.js and the audit log a query
C36_Witness ==
  \E i \in IdxSlots :
    /\ Settled(i) /\ idx[i].path = "a.ts" /\ idx[i].replaced
    /\ ~idx[i].result.success
    /\ RowsOf(code_index, "b.js") # <<>>
    /\ search_queries # {}

\* C37: when the embedding provider fails, every result a hybrid search
\* returns has the relevanceScore and the matchType that text search gives
\* the element for the same query on the same store.
C37_HybridFallbackKeepsTextScores ==
  \A s \in SrchSlots :
    LET sr == srch[s]
        text == performTextSearch(sr.query)
    IN (Returned(s) /\ Fresh(s) /\ sr.query.searchType = "hybrid" /\ sr.fellBack)
       => \A n \in 1..Len(sr.results) :
            \E m \in 1..Len(text) :
              /\ text[m].elementId = sr.results[n].elementId
              /\ text[m].relevanceScore = sr.results[n].relevanceScore
              /\ text[m].matchType = sr.results[n].matchType

\* the run of indexWorkspace in slot w, of sv, is in progress
InProgress(sv, w) == sv.run[w].pc \in {"enumerate", "batch", "file", "count"}

\* the call of slot w is refused in this step
Refused(w) ==
  /\ RunSettles(w) /\ svc'.run[w].status = "rejected"
  /\ svc'.run[w].error = "Indexing already in progress"

\* C38: at most one run of indexWorkspace is in progress, and isIndexing is
\* set exactly while one is; a call made during a run is refused and leaves
\* the store, isIndexing and indexingProgress as they are; the end of a run,
\* with a summary of success or of failure, clears isIndexing, and a call
\* made while no run is in progress is accepted.
C38_OneRunAtATime ==
  /\ [](/\ Cardinality({w \in RunSlots : InProgress(svc, w)}) <= 1
        /\ svc.isIndexing <=> \E w \in RunSlots : InProgress(svc, w))
  /\ [][\A w \in RunSlots :
          /\ (RunSettles(w) /\ svc'.run[w].kind = "indexWorkspace"
              /\ \E v \in RunSlots \ {w} : InProgress(svc, v))
             => Refused(w)
          /\ Refused(w)
             => /\ code_index' = code_index
                /\ svc'.indexingProgress = svc.indexingProgress
                /\ svc'.isIndexing
          /\ (InProgress(svc, w) /\ RunSettles(w)) => ~svc'.isIndexing
          /\ (/\ FreeRun(w) /\ svc'.run[w] # svc.run[w]
              /\ svc'.run[w].kind = "indexWorkspace"
              /\ ~\E v \in RunSlots : InProgress(svc, v))
             => InProgress(svc', w)]_vars

\* C38 witness: an indexWorkspace call was refused while a run that had
\* processed a file was in progress
C38_Witness ==
  \E w, v \in RunSlots :
    /\ svc.run[w].pc = "done" /\ svc.run[w].kind = "indexWorkspace"
    /\ svc.run[w].error = "Indexing already in progress"
    /\ InProgress(svc, v) /\ svc.indexingProgress.processedFiles > 0

\* C39: every highlight generateHighlights returns for text search has
\* text = content.substring(start, end), also when it was merged from
\* overlapping or adjacent occurrences, and the highlights are in the order
\* of their starts, each start greater than the end before it.
C39_HighlightTextIsSubstring ==
  (hl.pc \in {"lexical", "done"} /\ hl.lexical.returns)
  => /\ \A n \in 1..Len(hl.lexical.spans) :
          hl.lexical.spans[n].text
            = substring(hl.content, hl.lexical.spans[n].start,
                        hl.lexical.spans[n].end)
     /\ \A n \in 2..Len(hl.lexical.spans) :
          hl.lexical.spans[n].start > hl.lexical.spans[n - 1].end

=============================================================================
